---- MODULE Spec2Model ----
(***************************************************************************)
(* NFA -> DFA subset construction of main.py: the NFA class and its text   *)
(* parser, epsilon_closure, move and the worklist loop of nfa_to_dfa.      *)
(*                                                                         *)
(* State identifiers are the opaque tokens 0, 1, 2 (the parser's stripped  *)
(* strings); symbols are strings, "" being the empty symbol.  A Python     *)
(* set is a TLA+ set, a frozenset is the same set used as a value, a dict  *)
(* is a function whose DOMAIN is the set of keys, a key (s, sym) is the    *)
(* tuple <<s, sym>>, a deque/list is a sequence.                           *)
(***************************************************************************)
EXTENDS Integers, Sequences, FiniteSets, TLC

VARIABLES
    text,        \* the description handed to NFA.parse_from_text
    nfa,         \* the NFA object (NoNFA before construction)
    err,         \* exception raised by the construction, "none" if none
    pc,          \* position: "input", "built", "while", "for", "done", "failed",
                 \* "ui" (the script waits for a click)
    page,        \* st.session_state.page
    dfa_result,  \* st.session_state.dfa_result (NoResult for None)
    alpha,       \* nfa_to_dfa: alpha, as the sequence its iteration yields
    dfa_states,  \* nfa_to_dfa: dfa_states
    dfa_trans,   \* nfa_to_dfa: dfa_trans
    dfa_accept,  \* nfa_to_dfa: dfa_accept
    start,       \* nfa_to_dfa: start
    queue,       \* nfa_to_dfa: queue
    curr,        \* nfa_to_dfa: curr
    rest,        \* nfa_to_dfa: the symbols the for loop has still to visit
    logs,        \* nfa_to_dfa: logs
    first,       \* the DFA returned by the previous run on the same NFA
    ec           \* a running call of epsilon_closure: its stack and closure

vars == <<text, nfa, err, pc, alpha, dfa_states, dfa_trans, dfa_accept,
          start, queue, curr, rest, logs, first, ec, page, dfa_result>>

engineVars == <<alpha, dfa_states, dfa_trans, dfa_accept, start, queue, curr,
                rest, logs>>

\* the front-end's session state
uiVars == <<page, dfa_result>>

(***************************************************************************)
(* Bounds and universes                                                    *)
(***************************************************************************)
\* most (source, symbol, destination) edges of an enumerated NFA
MaxEdges == 2
\* longest input word tried against the NFA and the DFA
MaxWordLen == 3
\* most lines of the Transitions section of an enumerated text
MaxLines == 2
\* most empty-symbol edges of an NFA handed to epsilon_closure alone
MaxEpsEdges == 4

Q == {0, 1, 2}
Epsilon == ""
Sigma == {"a", "b"}
Symbols == Sigma \cup {Epsilon}

NoNFA == [absent |-> TRUE]
NoText == [absent |-> TRUE]
NoResult == [absent |-> TRUE]
NoCall == [absent |-> TRUE]
NoState == {-1}
EmptyDict == [k \in {} |-> {}]

(***************************************************************************)
(* Python helpers                                                          *)
(***************************************************************************)
\* dict.get(key, default)
Get(d, key, default) == IF key \in DOMAIN d THEN d[key] ELSE default

\* d[key] = value
Put(d, key, value) ==
    [k \in DOMAIN d \cup {key} |-> IF k = key THEN value ELSE d[k]]

\* sorted(S) for a set of state identifiers
RECURSIVE Sorted(_)
Sorted(S) ==
    IF S = {} THEN <<>>
    ELSE LET m == CHOOSE x \in S : \A y \in S : x <= y
         IN  <<m>> \o Sorted(S \ {m})

\* the orders in which iterating a set can yield its elements
Orders(S) ==
    {f \in [1..Cardinality(S) -> S] : \A i, j \in DOMAIN f : i # j => f[i] # f[j]}

Range(f) == {f[i] : i \in DOMAIN f}

(***************************************************************************)
(* class NFA (main.py 9-45)                                                *)
(***************************************************************************)
\* lines 13-15: "for (s, sym), dests in transitions.items():
\*                   self.transitions[(s, sym)] |= set(dests)"
\* over the items not yet visited, the defaultdict giving set() for a new key
RECURSIVE InitTransitions(_, _, _)
InitTransitions(transitions, todo, acc) ==
    IF todo = {} THEN acc
    ELSE LET k == CHOOSE x \in todo : TRUE
         IN  InitTransitions(transitions, todo \ {k},
                             Put(acc, k, Get(acc, k, {}) \cup transitions[k]))

\* NFA.__init__ (lines 10-17): no argument is checked
NFA_init(states, alphabet, transitions, start_state, accept_states) ==
    [states |-> states,
     alphabet |-> alphabet,
     transitions |-> InitTransitions(transitions, DOMAIN transitions, EmptyDict),
     start_state |-> start_state,
     accept_states |-> accept_states]

\* str.split(','): the fields of a string given as its sequence of characters
RECURSIVE Split(_, _)
Split(chars, fields) ==
    IF chars = <<>> THEN fields
    ELSE IF Head(chars) = ","
         THEN Split(Tail(chars), Append(fields, ""))
         ELSE Split(Tail(chars),
                    [fields EXCEPT ![Len(fields)] = fields[Len(fields)] \o Head(chars)])

\* line 33: set(x.strip() for x in line.split(':', 1)[1].split(','))
ParseAlphabet(chars) == Range(Split(chars, <<"">>))

\* lines 40-44 over the lines of the Transitions section: a line without
\* "->" makes the unpacking of line.split('->') raise ValueError, any other
\* line assigns transitions[(s, sym)] = set(dests)
RECURSIVE ParseLines(_, _)
ParseLines(lines, transitions) ==
    IF lines = <<>> THEN [err |-> "none", transitions |-> transitions]
    ELSE IF ~Head(lines).arrow
         THEN [err |-> "ValueError", transitions |-> transitions]
         ELSE ParseLines(Tail(lines),
                         Put(transitions, <<Head(lines).s, Head(lines).sym>>,
                             Head(lines).dests))

\* NFA.parse_from_text (lines 20-45); a text without an "Alphabet:" line
\* leaves alphabet = set()
parse_from_text(t) ==
    LET r == ParseLines(t.lines, EmptyDict)
        alphabet == IF t.alphabet.present THEN ParseAlphabet(t.alphabet.chars) ELSE {}
    IN  IF r.err # "none"
        THEN [err |-> r.err, nfa |-> NoNFA]
        ELSE [err |-> "none",
              nfa |-> NFA_init(t.states, alphabet, r.transitions, t.start, t.accept)]

\* the convert handler's call of NFA.parse_from_text (line 194)
Parse ==
    /\ pc = "input"
    /\ LET r == parse_from_text(text)
       IN  /\ err' = r.err
           /\ nfa' = r.nfa
           /\ pc' = IF r.err = "none" THEN "built" ELSE "failed"
    /\ UNCHANGED <<text, first, ec>>
    /\ UNCHANGED engineVars
    /\ UNCHANGED uiVars

(***************************************************************************)
(* epsilon_closure (main.py 48-56) and move (main.py 59-63)                *)
(***************************************************************************)
\* EcVisit without "stack.append(nxt)"
RECURSIVE EcVisitNoPush(_, _, _)
EcVisitNoPush(ds, stack, closure) ==
    IF ds = <<>> THEN [stack |-> stack, closure |-> closure]
    ELSE EcVisitNoPush(Tail(ds), stack, closure \cup {Head(ds)})

\* the body of "for nxt in ...: if nxt not in closure: add, append" for the
\* destinations ds taken in the order of the sequence ds
RECURSIVE EcVisit(_, _, _)
EcVisit(ds, stack, closure) ==
    IF ds = <<>> THEN [stack |-> stack, closure |-> closure]
    ELSE IF Head(ds) \notin closure
         THEN EcVisit(Tail(ds), Append(stack, Head(ds)), closure \cup {Head(ds)})
         ELSE EcVisit(Tail(ds), stack, closure)

\* EcIter with the stack rebuilt from the new destinations alone
EcIterClear(n, stack, closure, dsOrder) == EcVisit(dsOrder, <<>>, closure)

\* one iteration of "while stack": pop the last element, visit its
\* destinations on the empty symbol in the order dsOrder
EcIter(n, stack, closure, dsOrder) ==
    EcVisit(dsOrder, SubSeq(stack, 1, Len(stack) - 1), closure)

RECURSIVE EcLoop(_, _, _)
EcLoop(n, stack, closure) ==
    IF stack = <<>> THEN closure
    ELSE LET s == stack[Len(stack)]
         IN  \* r, the stack and the closure after this iteration, is bound
             \* by the set constructor so that it is computed once
             CHOOSE c \in {EcLoop(n, r.stack, r.closure) :
                             r \in {EcIter(n, stack, closure,
                                           Sorted(Get(n.transitions, <<s, Epsilon>>, {})))}} : TRUE

\* epsilon_closure(nfa, state_set); the sets are iterated in sorted order
\* here, EcCall/EcStep below run the same code under every iteration order
epsilon_closure(n, state_set) == EcLoop(n, Sorted(state_set), state_set)

\* the dict after d[key] on a defaultdict(set): a missing key is inserted
AfterIndex(d, key) == IF key \in DOMAIN d THEN d ELSE Put(d, key, {})

\* the dict after d.get(key, default) (lines 52 and 62): get inserts no
\* key, not even into a defaultdict
AfterGet(d, key) == d

RECURSIVE AfterGets(_, _)
AfterGets(d, keys) ==
    IF keys = {} THEN d
    ELSE LET k == CHOOSE x \in keys : TRUE
         IN  AfterGets(AfterGet(d, k), keys \ {k})

\* the NFA after epsilon_closure(n, state_set): line 52 looks up (s, '')
\* for every state s it pops, that is for every state of the result
AfterClosure(n, state_set) ==
    [n EXCEPT !.transitions =
        AfterGets(@, {<<s, Epsilon>> : s \in epsilon_closure(n, state_set)})]

(* epsilon_closure step by step, the sets iterated in any order *)
\* line 49: stack, closure = list(state_set), set(state_set)
EcCall ==
    /\ ec = NoCall
    /\ \E S \in SUBSET Q : \E o \in Orders(S) :
          ec' = [state_set |-> S, stack |-> o, closure |-> S, returned |-> FALSE,
                 inner |-> NoState]
    /\ UNCHANGED <<text, nfa, err, pc, first>>
    /\ UNCHANGED engineVars
    /\ UNCHANGED uiVars

\* lines 50-55: one iteration of "while stack"
EcStep ==
    /\ ec # NoCall
    /\ ~ec.returned
    /\ ec.stack # <<>>
    /\ LET s == ec.stack[Len(ec.stack)] IN
       \E o \in Orders(Get(nfa.transitions, <<s, Epsilon>>, {})) :
          LET r == EcIter(nfa, ec.stack, ec.closure, o)
          IN  /\ ec' = [ec EXCEPT !.stack = r.stack, !.closure = r.closure]
              /\ nfa' = [nfa EXCEPT !.transitions = AfterGet(@, <<s, Epsilon>>)]
    /\ UNCHANGED <<text, err, pc, first>>
    /\ UNCHANGED engineVars
    /\ UNCHANGED uiVars

\* line 56: return closure
EcReturn ==
    /\ ec # NoCall
    /\ ~ec.returned
    /\ ec.stack = <<>>
    /\ ec' = [ec EXCEPT !.returned = TRUE]
    /\ UNCHANGED <<text, nfa, err, pc, first>>
    /\ UNCHANGED engineVars
    /\ UNCHANGED uiVars

\* epsilon_closure(nfa, epsilon_closure(nfa, S)): the outer call, on the set
\* the first call returned; inner keeps the first call's argument S
EcAgain ==
    /\ ec # NoCall
    /\ ec.returned
    /\ ec.inner = NoState
    /\ \E o \in Orders(ec.closure) :
          ec' = [state_set |-> ec.closure, stack |-> o, closure |-> ec.closure,
                 returned |-> FALSE, inner |-> ec.state_set]
    /\ UNCHANGED <<text, nfa, err, pc, first>>
    /\ UNCHANGED engineVars
    /\ UNCHANGED uiVars

\* move with "result = ..." in place of "result |= ..."
RECURSIVE MoveLoopAssign(_, _, _, _)
MoveLoopAssign(n, todo, symbol, result) ==
    IF todo = {} THEN result
    ELSE LET s == CHOOSE x \in todo : TRUE
         IN  MoveLoopAssign(n, todo \ {s}, symbol,
                            Get(n.transitions, <<s, symbol>>, {}))

RECURSIVE MoveLoop(_, _, _, _)
MoveLoop(n, todo, symbol, result) ==
    IF todo = {} THEN result
    ELSE LET s == CHOOSE x \in todo : TRUE
         IN  MoveLoop(n, todo \ {s}, symbol,
                      result \cup Get(n.transitions, <<s, symbol>>, {}))

move(n, state_set, symbol) == MoveLoop(n, state_set, symbol, {})

\* the NFA after move(n, state_set, symbol): line 62 looks up (s, symbol)
\* for every state s of state_set
AfterMove(n, state_set, symbol) ==
    [n EXCEPT !.transitions = AfterGets(@, {<<s, symbol>> : s \in state_set})]

(***************************************************************************)
(* nfa_to_dfa (main.py 66-90)                                              *)
(***************************************************************************)
StateLog(c) == [kind |-> "state", curr |-> Sorted(c)]
SymLog(sym, mv, nxt) ==
    [kind |-> "sym", sym |-> sym, mv |-> Sorted(mv), nxt |-> Sorted(nxt)]

\* the accept test with "<=" in place of "&"
IsAcceptingSubset(n, T) == n.accept_states \subseteq T /\ n.accept_states # {}

\* lines 72-73 and 88-89: the accept test of a subset
IsAccepting(n, T) == n.accept_states \cap T # {}

\* line 69 without the closure: frozenset({nfa.start_state})
StartSubsetBare(n) == {n.start_state}

\* line 69: frozenset(epsilon_closure(nfa, {nfa.start_state}))
StartSubset(n) == epsilon_closure(n, {n.start_state})

\* lines 67-75, up to the first test of "while queue"
Call ==
    /\ pc = "built"
    /\ \E o \in Orders(nfa.alphabet) :
        LET s0 == StartSubset(nfa) IN
        /\ alpha' = o
        /\ start' = s0
        /\ queue' = <<s0>>
        /\ dfa_states' = {s0}
        /\ dfa_trans' = EmptyDict
        /\ dfa_accept' = IF IsAccepting(nfa, s0) THEN {s0} ELSE {}
        /\ logs' = <<>>
        /\ curr' = NoState
        /\ rest' = <<>>
    /\ nfa' = AfterClosure(nfa, {nfa.start_state})
    /\ pc' = "while"
    /\ UNCHANGED <<text, err, first, ec>>
    /\ UNCHANGED uiVars

\* Dequeue with queue.pop() in place of queue.popleft()
DequeuePop ==
    /\ pc = "while"
    /\ queue # <<>>
    /\ curr' = queue[Len(queue)]
    /\ queue' = SubSeq(queue, 1, Len(queue) - 1)
    /\ logs' = Append(logs, StateLog(queue[Len(queue)]))
    /\ rest' = alpha
    /\ pc' = IF alpha = <<>> THEN "while" ELSE "for"
    /\ UNCHANGED <<text, nfa, err, alpha, dfa_states, dfa_trans, dfa_accept,
                   start, first, ec>>
    /\ UNCHANGED uiVars

\* lines 77-79: the loop test succeeds, popleft, the header log
Dequeue ==
    /\ pc = "while"
    /\ queue # <<>>
    /\ curr' = Head(queue)
    /\ queue' = Tail(queue)
    /\ logs' = Append(logs, StateLog(Head(queue)))
    /\ rest' = alpha
    /\ pc' = IF alpha = <<>> THEN "while" ELSE "for"
    /\ UNCHANGED <<text, nfa, err, alpha, dfa_states, dfa_trans, dfa_accept,
                   start, first, ec>>
    /\ UNCHANGED uiVars

\* line 85 with the seen-set test lost: every destination counts as new
IsNewAlways(nxt, seen) == TRUE

\* line 85: if nxt not in dfa_states
IsNew(nxt, seen) == nxt \notin seen

\* SymStep leaving the for loop ("break") once it has found a new subset
SymStepBreak ==
    /\ pc = "for"
    /\ rest # <<>>
    /\ \E sym \in {Head(rest)} :
       \E mv \in {move(nfa, curr, sym)} :
       \E nxt \in {epsilon_closure(nfa, mv)} :
           /\ nfa' = AfterClosure(AfterMove(nfa, curr, sym), mv)
           /\ dfa_trans' = Put(dfa_trans, <<curr, sym>>, nxt)
           /\ logs' = Append(logs, SymLog(sym, mv, nxt))
           /\ IF IsNew(nxt, dfa_states)
              THEN /\ dfa_states' = dfa_states \cup {nxt}
                   /\ queue' = Append(queue, nxt)
                   /\ dfa_accept' = IF IsAccepting(nfa, nxt)
                                    THEN dfa_accept \cup {nxt}
                                    ELSE dfa_accept
                   /\ rest' = <<>>
                   /\ pc' = "while"
              ELSE /\ UNCHANGED <<dfa_states, queue, dfa_accept>>
                   /\ rest' = Tail(rest)
                   /\ pc' = IF Tail(rest) = <<>> THEN "while" ELSE "for"
    /\ UNCHANGED <<text, err, alpha, start, curr, first, ec>>
    /\ UNCHANGED uiVars

\* SymStep recording the raw move as the destination: dfa_trans[...] = mv
SymStepMoveDest ==
    /\ pc = "for"
    /\ rest # <<>>
    /\ \E sym \in {Head(rest)} :
       \E mv \in {move(nfa, curr, sym)} :
       \E nxt \in {epsilon_closure(nfa, mv)} :
           /\ nfa' = AfterClosure(AfterMove(nfa, curr, sym), mv)
           /\ dfa_trans' = Put(dfa_trans, <<curr, sym>>, mv)
           /\ logs' = Append(logs, SymLog(sym, mv, nxt))
           /\ IF IsNew(nxt, dfa_states)
              THEN /\ dfa_states' = dfa_states \cup {nxt}
                   /\ queue' = Append(queue, nxt)
                   /\ dfa_accept' = IF IsAccepting(nfa, nxt)
                                    THEN dfa_accept \cup {nxt}
                                    ELSE dfa_accept
              ELSE UNCHANGED <<dfa_states, queue, dfa_accept>>
    /\ rest' = Tail(rest)
    /\ pc' = IF Tail(rest) = <<>> THEN "while" ELSE "for"
    /\ UNCHANGED <<text, err, alpha, start, curr, first, ec>>
    /\ UNCHANGED uiVars

\* lines 80-89: one iteration of "for sym in alpha"
SymStep ==
    /\ pc = "for"
    /\ rest # <<>>
    /\ \E sym \in {Head(rest)} :
       \E mv \in {move(nfa, curr, sym)} :
       \E nxt \in {epsilon_closure(nfa, mv)} :
           /\ nfa' = AfterClosure(AfterMove(nfa, curr, sym), mv)
           /\ dfa_trans' = Put(dfa_trans, <<curr, sym>>, nxt)
           /\ logs' = Append(logs, SymLog(sym, mv, nxt))
           /\ IF IsNew(nxt, dfa_states)
              THEN /\ dfa_states' = dfa_states \cup {nxt}
                   /\ queue' = Append(queue, nxt)
                   /\ dfa_accept' = IF IsAccepting(nfa, nxt)
                                    THEN dfa_accept \cup {nxt}
                                    ELSE dfa_accept
              ELSE UNCHANGED <<dfa_states, queue, dfa_accept>>
    /\ rest' = Tail(rest)
    /\ pc' = IF Tail(rest) = <<>> THEN "while" ELSE "for"
    /\ UNCHANGED <<text, err, alpha, start, curr, first, ec>>
    /\ UNCHANGED uiVars

\* line 90: the loop test fails, return
Return ==
    /\ pc = "while"
    /\ queue = <<>>
    /\ pc' = "done"
    /\ UNCHANGED <<text, nfa, err, first, ec>>
    /\ UNCHANGED engineVars
    /\ UNCHANGED uiVars

\* line 90: the tuple nfa_to_dfa returns
Returned ==
    [dfa_states |-> dfa_states, alpha |-> Range(alpha), dfa_trans |-> dfa_trans,
     start |-> start, dfa_accept |-> dfa_accept, logs |-> logs]

\* a second call of nfa_to_dfa on the same NFA (the convert button pressed
\* again on an unchanged text): the set alpha may iterate in another order
Rerun ==
    /\ pc = "done"
    /\ first = NoResult
    /\ first' = Returned
    /\ pc' = "built"
    /\ UNCHANGED <<text, nfa, err, ec>>
    /\ UNCHANGED engineVars
    /\ UNCHANGED uiVars

(***************************************************************************)
(* The NFAs of the engine's specification                                  *)
(***************************************************************************)
Edges == Q \X Symbols \X Q

\* the subsets of S of at most k elements
RECURSIVE UpTo(_, _)
UpTo(S, k) ==
    IF k = 0 THEN {{}}
    ELSE LET P == UpTo(S, k - 1) IN P \cup {E \cup {e} : E \in P, e \in S}

EdgeSets == UpTo(Edges, MaxEdges)

\* the transitions dict holding exactly the edges E
DictOf(E) ==
    [k \in {<<e[1], e[2]>> : e \in E} |-> {e[3] : e \in {x \in E : x[1] = k[1] /\ x[2] = k[2]}}]

\* {""} is what the parser makes of a blank "Alphabet:" line
Alphabets == {{}, {"a"}, {"a", "b"}, {Epsilon}}

AcceptSets == SUBSET Q

NFAs ==
    {[states |-> Q, alphabet |-> al, transitions |-> DictOf(E),
      start_state |-> 0, accept_states |-> ac] :
        al \in Alphabets, E \in EdgeSets, ac \in AcceptSets}

\* nothing has run yet
Idle ==
    /\ err = "none"
    /\ alpha = <<>>
    /\ dfa_states = {}
    /\ dfa_trans = EmptyDict
    /\ dfa_accept = {}
    /\ start = NoState
    /\ queue = <<>>
    /\ curr = NoState
    /\ rest = <<>>
    /\ logs = <<>>
    /\ first = NoResult
    /\ ec = NoCall
    /\ page = 0
    /\ dfa_result = NoResult

Init ==
    /\ text = NoText
    /\ nfa \in NFAs
    /\ pc = "built"
    /\ Idle

Next == Call \/ Dequeue \/ SymStep \/ Return

Spec == Init /\ [][Next]_vars

(***************************************************************************)
(* The texts of the parser's specification                                 *)
(***************************************************************************)
TQ == {0, 1}

\* "s,sym->dests" lines, and one line without "->"
ArrowLines ==
    {[arrow |-> TRUE, s |-> s, sym |-> sym, dests |-> ds] :
        s \in TQ, sym \in {Epsilon, "a"}, ds \in SUBSET TQ}
BadLine == [arrow |-> FALSE, s |-> 0, sym |-> Epsilon, dests |-> {}]

RECURSIVE SeqsUpTo(_, _)
SeqsUpTo(S, k) ==
    IF k = 0 THEN {<<>>}
    ELSE LET P == SeqsUpTo(S, k - 1) IN P \cup {Append(q, x) : q \in P, x \in S}

\* no "Alphabet:" line, "Alphabet:", "Alphabet: a", "Alphabet: a,b"
AlphabetLines ==
    {[present |-> FALSE, chars |-> <<>>]} \cup
    {[present |-> TRUE, chars |-> c] : c \in {<<>>, <<"a">>, <<"a", ",", "b">>}}

\* a text: the identifiers of its States and Accept lines (given as the
\* sets lines 31 and 37 build), its Start identifier, the characters after
\* "Alphabet:" and the lines of its Transitions section
Texts ==
    {[states |-> st, alphabet |-> al, start |-> s0, accept |-> ac, lines |-> ls] :
        st \in {{0}, {0, 1}}, al \in AlphabetLines, s0 \in TQ, ac \in {{0}, {1}},
        ls \in SeqsUpTo(ArrowLines \cup {BadLine}, MaxLines)}

InitText ==
    /\ text \in Texts
    /\ nfa = NoNFA
    /\ pc = "input"
    /\ Idle

NextText == Parse \/ Next

SpecText == InitText /\ [][NextText]_vars

\* the handler and nfa_to_dfa are straight sequential code: while a step is
\* possible, the interpreter takes it
SpecFair == InitText /\ [][NextText]_vars /\ WF_vars(NextText)

(***************************************************************************)
(* The Streamlit front-end (main.py 152-237)                               *)
(***************************************************************************)
MaxUILines == 1

\* the texts of the text area: "States: 0,1", "Alphabet: a", "Start: 0",
\* "Accept: 1" and up to MaxUILines lines in the Transitions section
UITexts ==
    {[states |-> TQ, alphabet |-> [present |-> TRUE, chars |-> <<"a">>],
      start |-> 0, accept |-> {1}, lines |-> ls] :
        ls \in SeqsUpTo(ArrowLines \cup {BadLine}, MaxUILines)}

\* lines 168-169: the start button of page 0
ClickStart ==
    /\ pc = "ui"
    /\ page = 0
    /\ page' = 1
    /\ UNCHANGED <<text, nfa, err, pc, first, ec, dfa_result>>
    /\ UNCHANGED engineVars

\* ClickConvert dropping the cached result when the button is pressed
ClickConvertClear ==
    /\ pc = "ui"
    /\ page >= 1
    /\ text' \in UITexts
    /\ dfa_result' = NoResult
    /\ pc' = "input"
    /\ nfa' = NoNFA
    /\ err' = "none"
    /\ alpha' = <<>>
    /\ dfa_states' = {}
    /\ dfa_trans' = EmptyDict
    /\ dfa_accept' = {}
    /\ start' = NoState
    /\ queue' = <<>>
    /\ curr' = NoState
    /\ rest' = <<>>
    /\ logs' = <<>>
    /\ UNCHANGED <<first, ec, page>>

\* lines 172, 190-193: on a page >= 1 the convert button is pressed with
\* some text in the text area; the script runs anew, its locals unset, and
\* enters the try block
ClickConvert ==
    /\ pc = "ui"
    /\ page >= 1
    /\ text' \in UITexts
    /\ pc' = "input"
    /\ nfa' = NoNFA
    /\ err' = "none"
    /\ alpha' = <<>>
    /\ dfa_states' = {}
    /\ dfa_trans' = EmptyDict
    /\ dfa_accept' = {}
    /\ start' = NoState
    /\ queue' = <<>>
    /\ curr' = NoState
    /\ rest' = <<>>
    /\ logs' = <<>>
    /\ UNCHANGED <<first, ec>>
    /\ UNCHANGED uiVars

\* lines 196-204: nfa_to_dfa has returned; the result is cached, then the
\* page is set to 2
Store ==
    /\ pc = "done"
    /\ dfa_result' = [nfa |-> nfa, dfa_states |-> dfa_states, dfa_trans |-> dfa_trans,
                      dfa_start |-> start, dfa_accept |-> dfa_accept, logs |-> logs]
    /\ page' = 2
    /\ pc' = "ui"
    /\ UNCHANGED <<text, nfa, err, first, ec>>
    /\ UNCHANGED engineVars

\* lines 205-206: the except clause shows the message of the exception
Catch ==
    /\ pc = "failed"
    /\ pc' = "ui"
    /\ UNCHANGED <<text, nfa, err, first, ec>>
    /\ UNCHANGED engineVars
    /\ UNCHANGED uiVars

\* ClickBack going back to the introduction page
ClickBackHome ==
    /\ pc = "ui"
    /\ page = 2
    /\ page' = 0
    /\ UNCHANGED <<text, nfa, err, pc, first, ec, dfa_result>>
    /\ UNCHANGED engineVars

\* lines 236-237: the back button of page 2
ClickBack ==
    /\ pc = "ui"
    /\ page = 2
    /\ page' = 1
    /\ UNCHANGED <<text, nfa, err, pc, first, ec, dfa_result>>
    /\ UNCHANGED engineVars

\* lines 152-155 on the first run of the script; a run of the script
\* without a click changes nothing and is a stuttering step
InitUI ==
    /\ text = NoText
    /\ nfa = NoNFA
    /\ pc = "ui"
    /\ Idle

NextUI ==
    \/ ClickStart
    \/ ClickConvert
    \/ Parse
    \/ Call
    \/ Dequeue
    \/ SymStep
    \/ Return
    \/ Store
    \/ Catch
    \/ ClickBack

SpecUI == InitUI /\ [][NextUI]_vars

(***************************************************************************)
(* epsilon_closure alone, on NFAs of empty-symbol edges                    *)
(***************************************************************************)
EpsNFAs ==
    {[states |-> Q, alphabet |-> {}, transitions |-> DictOf(E),
      start_state |-> 0, accept_states |-> {}] :
        E \in UpTo(Q \X {Epsilon} \X Q, MaxEpsEdges)}

InitClosure ==
    /\ text = NoText
    /\ nfa \in EpsNFAs
    /\ pc = "built"
    /\ Idle

NextClosure == EcCall \/ EcStep \/ EcReturn

SpecClosure == InitClosure /\ [][NextClosure]_vars

NextIdem == NextClosure \/ EcAgain

SpecIdem == InitClosure /\ [][NextIdem]_vars

\* the engine run twice on the NFAs whose alphabet has two iteration orders
InitRerun ==
    /\ text = NoText
    /\ nfa \in {n \in NFAs : n.alphabet = Sigma}
    /\ pc = "built"
    /\ Idle

NextRerun == Next \/ Rerun

SpecRerun == InitRerun /\ [][NextRerun]_vars

(***************************************************************************)
(* Reference notions the claims are stated with                            *)
(***************************************************************************)
\* the destinations of s on the empty symbol
EpsSucc(n, s) == Get(n.transitions, <<s, Epsilon>>, {})

\* the states reachable from S by zero or more empty-symbol transitions:
\* the least superset of S closed under the empty-symbol transitions
ReachEps(n, S) ==
    LET U == SUBSET (Q \cup S)
        Good(X) == S \subseteq X /\ \A x \in X : EpsSucc(n, x) \subseteq X
    IN  CHOOSE X \in U : Good(X) /\ \A Y \in U : Good(Y) => X \subseteq Y

\* the words over the alphabet al of at most MaxWordLen symbols
Words(al) == UNION {[1..k -> al] : k \in 0..MaxWordLen}

\* epsilon-closed simulation of the NFA from the set cur on the word w
RECURSIVE NfaRun(_, _, _)
NfaRun(n, cur, w) ==
    IF w = <<>> THEN cur
    ELSE NfaRun(n,
                ReachEps(n, UNION {Get(n.transitions, <<s, Head(w)>>, {}) : s \in cur}),
                Tail(w))

NfaAccepts(n, w) ==
    NfaRun(n, ReachEps(n, {n.start_state}), w) \cap n.accept_states # {}

\* following dfa_trans from the DFA state T on the word w
RECURSIVE DfaRun(_, _)
DfaRun(T, w) ==
    IF w = <<>> THEN [stuck |-> FALSE, state |-> T]
    ELSE IF <<T, Head(w)>> \in DOMAIN dfa_trans
         THEN DfaRun(dfa_trans[<<T, Head(w)>>], Tail(w))
         ELSE [stuck |-> TRUE, state |-> T]

DfaAccepts(w) ==
    LET r == DfaRun(start, w) IN ~r.stuck /\ r.state \in dfa_accept

(***************************************************************************)
(* Claims                                                                  *)
(***************************************************************************)
\* C1: when nfa_to_dfa has returned, every word over the NFA's alphabet is
\* accepted by the NFA (epsilon-closed simulation from the start state ends
\* in a set holding an accept state) iff the returned DFA accepts it
\* (following dfa_trans from start ends in a member of dfa_accept).
C1_LanguageEquivalence ==
    pc = "done" =>
        \A w \in Words(nfa.alphabet) : NfaAccepts(nfa, w) <=> DfaAccepts(w)

\* a returned DFA of at least three subsets for an NFA with an empty-symbol
\* edge, with a word of two or more symbols accepted and another rejected
C1_Witness ==
    /\ pc = "done"
    /\ Cardinality(dfa_states) >= 3
    /\ \E k \in DOMAIN nfa.transitions : k[2] = Epsilon
    /\ \E w \in Words(nfa.alphabet) : Len(w) >= 2 /\ NfaAccepts(nfa, w) /\ DfaAccepts(w)
    /\ \E w \in Words(nfa.alphabet) : ~NfaAccepts(nfa, w) /\ ~DfaAccepts(w)

\* C2: no DFA transition is recorded for a pair (T, a) whose Move(T, a) is
\* empty, and the empty set is neither a transition destination nor a DFA
\* state.
C2_NoEmptySetTransition ==
    /\ \A k \in DOMAIN dfa_trans :
          /\ UNION {Get(nfa.transitions, <<s, k[2]>>, {}) : s \in k[1]} # {}
          /\ dfa_trans[k] # {}
    /\ {} \notin dfa_states

\* C6: when nfa_to_dfa has returned, dfa_accept holds exactly the
\* discovered subsets that share a state with the NFA's accept_states.
C6_AcceptIffIntersects ==
    pc = "done" =>
        /\ dfa_accept \subseteq dfa_states
        /\ \A T \in dfa_states :
              T \in dfa_accept <=> (\E s \in T : s \in nfa.accept_states)

\* a returned DFA whose start subset is rejecting while a subset found by
\* the loop is accepting, one of its two states only being an accept state,
\* and another subset found by the loop is rejecting
C6_Witness ==
    /\ pc = "done"
    /\ start \notin dfa_accept
    /\ \E T \in dfa_states \ {start} :
          T \in dfa_accept /\ Cardinality(T \ nfa.accept_states) = 1
    /\ \E T \in dfa_states \ {start} : T \notin dfa_accept

\* C9: a second run of nfa_to_dfa on the same NFA, whatever the order in
\* which the alphabet is iterated in either run, returns the same start
\* state, accept set, state set and transition map as the first.
C9_OrderIndependent ==
    (pc = "done" /\ first # NoResult) =>
        /\ start = first.start
        /\ dfa_accept = first.dfa_accept
        /\ dfa_states = first.dfa_states
        /\ dfa_trans = first.dfa_trans

\* two finished runs on an NFA of three or more subsets, the second having
\* iterated the alphabet in the other order and written another trace
C9_Witness ==
    /\ pc = "done"
    /\ first # NoResult
    /\ Cardinality(dfa_states) >= 3
    /\ first.logs[2].sym # logs[2].sym
    /\ first.logs[4].curr # logs[4].curr

\* the states reachable from a state of S by a path of zero or more
\* empty-symbol transitions (a path never needs to visit a state twice)
EpsPaths(n) ==
    {p \in UNION {[1..k -> Q] : k \in 1..Cardinality(Q)} :
        \A i \in 1..(Len(p) - 1) : p[i + 1] \in EpsSucc(n, p[i])}

EpsReachable(n, S) == {p[Len(p)] : p \in {q \in EpsPaths(n) : q[1] \in S}}

\* C3: a construction whose start state or an accept state is not in
\* states, or with a transition whose source or a destination is not in
\* states or whose symbol is neither empty nor in the alphabet, fails with
\* MalformedAutomaton and no step of the subset construction runs.
Malformed(t) ==
    LET alphabet == IF t.alphabet.present THEN ParseAlphabet(t.alphabet.chars) ELSE {}
    IN  /\ \A i \in DOMAIN t.lines : t.lines[i].arrow
        /\ \/ t.start \notin t.states
           \/ ~(t.accept \subseteq t.states)
           \/ \E i \in DOMAIN t.lines :
                 \/ t.lines[i].s \notin t.states
                 \/ ~(t.lines[i].dests \subseteq t.states)
                 \/ t.lines[i].sym \notin alphabet \cup {Epsilon}

C3_MalformedRejected ==
    (pc # "input" /\ Malformed(text)) =>
        (pc = "failed" /\ err = "MalformedAutomaton")

\* C4: the destination set the constructed NFA holds for a pair
\* (source, symbol) is the union of the destinations of all the lines of
\* the Transitions section that name this pair.
C4_DuplicateEntriesUnioned ==
    pc = "built" =>
        \A s \in TQ, sym \in Symbols :
            Get(nfa.transitions, <<s, sym>>, {}) =
                UNION {text.lines[i].dests :
                         i \in {j \in DOMAIN text.lines :
                                  text.lines[j].s = s /\ text.lines[j].sym = sym}}

\* C5: at every point of the worklist loop and at return, no key of
\* dfa_trans has the empty symbol as its symbol.
C5_NoEpsilonKey ==
    \A k \in DOMAIN dfa_trans : k[2] # Epsilon

\* C7: at every point of the worklist loop and at return, dfa_states has at
\* most 2^|nfa.states| elements, for every NFA the constructor accepts.
C7_StateCountBound ==
    pc \in {"while", "for", "done"} =>
        Cardinality(dfa_states) <= 2 ^ Cardinality(nfa.states)

\* C8: for an NFA whose alphabet is empty, nfa_to_dfa returns one DFA state,
\* the epsilon-closure of {start_state}, which is the DFA start state and is
\* accepting iff it holds an NFA accept state; the transition map is empty.
C8_EmptyAlphabet ==
    (pc = "done" /\ nfa.alphabet = {}) =>
        /\ dfa_states = {ReachEps(nfa, {nfa.start_state})}
        /\ start = ReachEps(nfa, {nfa.start_state})
        /\ dfa_accept \subseteq dfa_states
        /\ start \in dfa_accept <=> (start \cap nfa.accept_states # {})
        /\ dfa_trans = EmptyDict

\* a returned single accepting state that gathers a chain of two
\* empty-symbol edges although the start state itself is not accepting
C8_Witness ==
    /\ pc = "done"
    /\ nfa.alphabet = {}
    /\ start = Q
    /\ <<0, Epsilon>> \in DOMAIN nfa.transitions
    /\ nfa.transitions[<<0, Epsilon>>] = {1}
    /\ nfa.accept_states = {2}
    /\ dfa_accept = {start}
    /\ dfa_states = {start}

\* C10: a finished call epsilon_closure(nfa, S) returns exactly the states
\* reachable from a state of S by zero or more empty-symbol transitions, so
\* S is part of the result; the iteration order of the sets does not matter,
\* and the result is the one the sorted-order operator computes.
C10_ClosureIsReachability ==
    (ec # NoCall /\ ec.returned) =>
        /\ ec.closure = EpsReachable(nfa, ec.state_set)
        /\ ec.state_set \subseteq ec.closure
        /\ ec.closure = epsilon_closure(nfa, ec.state_set)

\* a finished call that reached a state two empty-symbol edges away from a
\* one-element S holding no edge back
C10_Witness ==
    /\ ec # NoCall
    /\ ec.returned
    /\ ec.state_set = {0}
    /\ ec.closure = Q
    /\ Get(nfa.transitions, <<0, Epsilon>>, {}) = {1}
    /\ Get(nfa.transitions, <<1, Epsilon>>, {}) = {2}

\* C11: epsilon_closure applied to the set a call of epsilon_closure
\* returned gives that set again, for every NFA and every state set S, under
\* every iteration order; so does the sorted-order operator.
C11_ClosureIdempotent ==
    (ec # NoCall /\ ec.returned /\ ec.inner # NoState) =>
        /\ ec.closure = ec.state_set
        /\ epsilon_closure(nfa, epsilon_closure(nfa, ec.inner)) =
               epsilon_closure(nfa, ec.inner)

\* a finished outer call on the three states that the first call gathered
\* from {0} along a chain of two empty-symbol edges
C11_Witness ==
    /\ ec # NoCall
    /\ ec.returned
    /\ ec.inner = {0}
    /\ ec.state_set = Q
    /\ ec.closure = Q
    /\ Get(nfa.transitions, <<0, Epsilon>>, {}) = {1}
    /\ Get(nfa.transitions, <<1, Epsilon>>, {}) = {2}

\* C12: no step of epsilon_closure, move or nfa_to_dfa changes the NFA (its
\* states, alphabet, start_state, accept_states, the keys of transitions and
\* every destination set), and a symbol step that looks up only pairs
\* without an entry gets the empty move and goes on without raising.
C12_NfaUnchanged ==
    [][/\ nfa' = nfa
       /\ (pc = "for" /\ \A s \in curr : <<s, Head(rest)>> \notin DOMAIN nfa.transitions)
            => /\ Len(logs') = Len(logs) + 1
               /\ logs'[Len(logs')].mv = <<>>
               /\ dfa_trans'[<<curr, Head(rest)>>] = ReachEps(nfa, {})
               /\ pc' \in {"for", "while"}]_vars

\* a finished run on an NFA with transitions that looked up, for a
\* non-empty subset, only pairs without an entry
C12_Witness ==
    /\ pc = "done"
    /\ nfa.transitions # EmptyDict
    /\ \E k \in DOMAIN dfa_trans :
          /\ k[1] # {}
          /\ \A s \in k[1] : <<s, k[2]>> \notin DOMAIN nfa.transitions
          /\ \E s \in k[1] : <<s, Epsilon>> \notin DOMAIN nfa.transitions

\* C13: the automaton nfa_to_dfa returns is well-formed: start is in
\* dfa_states, dfa_accept is a subset of dfa_states, and the source of
\* every key and every destination of dfa_trans is in dfa_states.
C13_DfaWellFormed ==
    pc = "done" =>
        /\ start \in dfa_states
        /\ dfa_accept \subseteq dfa_states
        /\ \A k \in DOMAIN dfa_trans : k[1] \in dfa_states /\ dfa_trans[k] \in dfa_states

\* a returned DFA with a transition whose destination is larger than the
\* raw move, the closure having added a state
C13_Witness ==
    /\ pc = "done"
    /\ \E k \in DOMAIN dfa_trans :
          /\ UNION {Get(nfa.transitions, <<s, k[2]>>, {}) : s \in k[1]} # dfa_trans[k]
          /\ dfa_trans[k] # k[1]
          /\ dfa_trans[k] \in dfa_accept

\* the subsets dequeued so far, as the header records of the trace name them
DequeuedLists == {logs[i].curr : i \in {j \in DOMAIN logs : logs[j].kind = "state"}}

\* C14: at every point of the worklist loop the queue holds no subset twice,
\* holds no subset that has been dequeued, and holds only members of
\* dfa_states.
C14_EnqueuedAtMostOnce ==
    /\ \A i, j \in DOMAIN queue : i # j => queue[i] # queue[j]
    /\ \A i \in DOMAIN queue : Sorted(queue[i]) \notin DequeuedLists
    /\ \A i \in DOMAIN queue : queue[i] \in dfa_states

\* a symbol step has just met again a subset that was dequeued before, while
\* another subset waits in the queue
C14_Witness ==
    /\ pc \in {"for", "while"}
    /\ queue # <<>>
    /\ Len(logs) >= 2
    /\ logs[Len(logs)].kind = "sym"
    /\ logs[Len(logs)].nxt \in DequeuedLists

\* the dequeues and the symbol steps done so far, as the trace counts them
DequeueCount == Cardinality({i \in DOMAIN logs : logs[i].kind = "state"})
SymStepCount == Cardinality({i \in DOMAIN logs : logs[i].kind = "sym"})

\* C15: the worklist loop eventually finds the queue empty and returns, and
\* at no point has it dequeued more than 2^|states| subsets or done more
\* than 2^|states| * |alphabet| symbol steps.
C15_Terminates ==
    /\ (pc = "built") ~> (pc = "done")
    /\ [](pc \in {"while", "for", "done"} =>
            /\ DequeueCount <= 2 ^ Cardinality(nfa.states)
            /\ SymStepCount <= 2 ^ Cardinality(nfa.states) * Cardinality(nfa.alphabet))

\* the index in the trace of the record that first gives the sorted subset
\* T as a destination; 0 for the start subset, which no record has to give
FirstSeen(T) ==
    IF T = Sorted(start) THEN 0
    ELSE LET at == {k \in DOMAIN logs : logs[k].kind = "sym" /\ logs[k].nxt = T}
         IN  IF at = {} THEN Len(logs) + 1
             ELSE CHOOSE k \in at : \A m \in at : k <= m

\* C16: the returned trace is a sequence of blocks, one per dequeued subset
\* in dequeue order (first found, first dequeued): a header record followed
\* by one record per alphabet symbol, in the order of the symbols, that
\* gives Move(T, a) and its epsilon-closure; the headers are the DFA states,
\* one each, and the destination logged for (T, a) is dfa_trans[(T, a)].
C16_TraceOrdered ==
    pc = "done" =>
        LET w == 1 + Len(alpha)
            n == Cardinality(dfa_states)
            H(i) == (i - 1) * w + 1
        IN  /\ Len(logs) = n * w
            /\ \A i \in 1..n :
                  /\ logs[H(i)].kind = "state"
                  /\ \A j \in 1..Len(alpha) :
                        LET T == Range(logs[H(i)].curr)
                            r == logs[H(i) + j]
                        IN  /\ r.kind = "sym"
                            /\ r.sym = alpha[j]
                            /\ Range(r.mv) =
                                  UNION {Get(nfa.transitions, <<s, alpha[j]>>, {}) : s \in T}
                            /\ Range(r.nxt) = ReachEps(nfa, Range(r.mv))
                            /\ <<T, alpha[j]>> \in DOMAIN dfa_trans
                            /\ Range(r.nxt) = dfa_trans[<<T, alpha[j]>>]
            /\ {Range(logs[H(i)].curr) : i \in 1..n} = dfa_states
            /\ logs[1].curr = Sorted(start)
            /\ \A i \in 1..n : \A k \in 1..n :
                  i < k => FirstSeen(logs[H(i)].curr) < FirstSeen(logs[H(k)].curr)
            /\ \A i \in 1..n : FirstSeen(logs[H(i)].curr) < H(i)

\* a returned trace of at least three blocks over two symbols, two subsets
\* found in one block
C16_Witness ==
    /\ pc = "done"
    /\ Len(alpha) = 2
    /\ Cardinality(dfa_states) >= 3
    /\ Len(logs) >= 9
    /\ logs[2].nxt # logs[3].nxt
    /\ logs[2].nxt # logs[1].curr
    /\ logs[3].nxt # logs[1].curr

\* the subsets reached from the subsets R by following dfa_trans
RECURSIVE DfaReach(_)
DfaReach(R) ==
    LET more == R \cup {dfa_trans[k] : k \in {x \in DOMAIN dfa_trans : x[1] \in R}}
    IN  IF more = R THEN R ELSE DfaReach(more)

\* C17: at every point of the loop every subset T of dfa_states is closed
\* under the empty symbol, epsilon_closure(nfa, T) = T, and at return every
\* subset of dfa_states is reached from the start subset through dfa_trans.
C17_ClosedAndReachable ==
    /\ pc \in {"while", "for", "done"} =>
          \A T \in dfa_states :
              /\ epsilon_closure(nfa, T) = T
              /\ ReachEps(nfa, T) = T
    /\ pc = "done" => dfa_states \subseteq DfaReach({start})

\* a returned DFA of several subsets in which the closure added a state to
\* the start subset and to a move
C17_Witness ==
    /\ pc = "done"
    /\ Cardinality(dfa_states) >= 2
    /\ start # {nfa.start_state}
    /\ \E i \in DOMAIN logs :
          /\ logs[i].kind = "sym"
          /\ logs[i].mv # <<>>
          /\ logs[i].mv # logs[i].nxt

\* C18: in every state of the front-end page is 0, 1 or 2 and, when page
\* is 2, the cached dfa_result is not None; no step takes page back to 0
\* once it has left it.
C18_PageAndResult ==
    /\ [](/\ page \in {0, 1, 2}
          /\ page = 2 => dfa_result # NoResult)
    /\ [][page # 0 => page' # 0]_vars

\* the back button was pressed on the result page: page 1 with a cached
\* result
C18_Witness ==
    /\ pc = "ui"
    /\ page = 1
    /\ dfa_result # NoResult

\* C19: no step of a conversion attempt that fails (the press of the
\* button, the parsing that raises, the except clause) changes page or
\* dfa_result, and the attempt ends with the exception's message to show.
C19_FailureKeepsSession ==
    [][/\ (pc' = "input" \/ pc = "input" \/ pc = "failed") =>
            (page' = page /\ dfa_result' = dfa_result)
       /\ (pc' = "failed" \/ pc = "failed") => err' # "none"]_vars

\* a conversion failed on the result page, the earlier result still cached
C19_Witness ==
    /\ pc = "failed"
    /\ err = "ValueError"
    /\ page = 2
    /\ dfa_result # NoResult
    /\ dfa_result.logs # <<>>

====
